---- MODULE Spec2Model ----
(***************************************************************************)
(* State-machine model of scaffold.py, the interactive scaffolder of a     *)
(* spec-driven project: gather_inputs (prompt, prompt_choice),             *)
(* create_project, print_next_steps and main.                              *)
(*                                                                         *)
(* A line typed by the user is a sequence of character runs (each run a    *)
(* string; a whitespace character is always a run of its own).  A path is  *)
(* the sequence of its components relative to the working directory.  The  *)
(* content of a file is the title line and the "## " lines of the template *)
(* it was written from.  The process may be started again after it exits;  *)
(* the file system is what persists between runs.                          *)
(***************************************************************************)
EXTENDS Integers, Sequences, FiniteSets, TLC

\* Number of re-prompts (empty name, invalid menu choice) explored in one run.
MaxRetries == 2

VARIABLES
    pc,             \* position of the process: the input() it blocks on, or the build step
    stdout,         \* lines printed by the current process
    exitStatus,     \* NoExit while running, else the process's exit status
    name,           \* gather_inputs: name
    description,    \* gather_inputs: description
    project_type,   \* gather_inputs: project_type
    ai_tool,        \* gather_inputs: ai_tool
    retries,        \* re-prompts issued so far by the current process
    step,           \* create_project: index of the next statement of the build
    fsDirs,         \* file system: the directories that exist
    fsFiles,        \* file system: path -> content of the files that exist
    createdByRun,   \* directories the current process has created
    writtenByRun,   \* files the current process has written or touched
    lastResponse,   \* the line the last input() of the current process returned
    pastRuns        \* earlier processes that created something: [name, outcome]

vars == <<pc, stdout, exitStatus, name, description, project_type, ai_tool,
          retries, step, fsDirs, fsFiles, createdByRun, writtenByRun,
          lastResponse, pastRuns>>

NoExit == "running"
Unset == ""

-----------------------------------------------------------------------------
(* Strings: str.strip and int()                                            *)

Whitespace == {" ", "\t"}

RECURSIVE LStrip(_)
LStrip(s) == IF s = <<>> THEN <<>>
             ELSE IF Head(s) \in Whitespace THEN LStrip(Tail(s)) ELSE s

RECURSIVE RStrip(_)
RStrip(s) == IF s = <<>> THEN <<>>
             ELSE IF s[Len(s)] \in Whitespace THEN RStrip(SubSeq(s, 1, Len(s) - 1)) ELSE s

\* str.strip(): drops leading and trailing whitespace, keeps inner whitespace
Strip(s) == RStrip(LStrip(s))

RECURSIVE Join(_)
\* the string a sequence of character runs spells
Join(s) == IF s = <<>> THEN "" ELSE Head(s) \o Join(Tail(s))

\* input(...).strip() as a string
Stripped(s) == Join(Strip(s))

Digits == {"0", "1", "2", "3", "4", "5", "6", "7", "8", "9"}

DigitVal(c) == CASE c = "0" -> 0 [] c = "1" -> 1 [] c = "2" -> 2 [] c = "3" -> 3
                 [] c = "4" -> 4 [] c = "5" -> 5 [] c = "6" -> 6 [] c = "7" -> 7
                 [] c = "8" -> 8 [] c = "9" -> 9

\* the digits part of an int() literal: digits, single underscores only between digits
IsDigitString(b) ==
    /\ b # <<>>
    /\ \A i \in 1..Len(b) : b[i] \in Digits \cup {"_"}
    /\ b[1] \in Digits
    /\ b[Len(b)] \in Digits
    /\ \A i \in 1..(Len(b) - 1) : ~(b[i] = "_" /\ b[i + 1] = "_")

HasSign(s) == s # <<>> /\ Head(s) \in {"+", "-"}

Unsigned(s) == IF HasSign(s) THEN Tail(s) ELSE s

\* int(s) does not raise ValueError (s has no surrounding whitespace)
IsIntLiteral(s) == IsDigitString(Unsigned(s))

RECURSIVE DigitsValue(_, _)
DigitsValue(b, acc) ==
    IF b = <<>> THEN acc
    ELSE IF Head(b) = "_" THEN DigitsValue(Tail(b), acc)
    ELSE DigitsValue(Tail(b), 10 * acc + DigitVal(Head(b)))

\* int(s) for a literal s
IntValue(s) == IF HasSign(s) /\ Head(s) = "-"
               THEN 0 - DigitsValue(Unsigned(s), 0)
               ELSE DigitsValue(Unsigned(s), 0)

-----------------------------------------------------------------------------
(* prompt and prompt_choice                                                *)

NoChoice == "<re-prompt>"

\* variant: the response used as a 0-based index
PromptChoiceZeroBased(options, response) ==
    LET s == Strip(response)
    IN  IF IsIntLiteral(s) /\ 0 <= IntValue(s) /\ IntValue(s) < Len(options)
        THEN options[IntValue(s) + 1]
        ELSE NoChoice

\* One pass of the loop of prompt_choice on one response: the option it
\* returns, or NoChoice when it prints the guidance and asks again.
PromptChoice(options, response) ==
    LET s == Strip(response)
    IN  IF IsIntLiteral(s) /\ 1 <= IntValue(s) /\ IntValue(s) <= Len(options)
        THEN options[IntValue(s)]
        ELSE NoChoice

\* variant: the default dropped
PromptIgnoreDefault(response, default) == Stripped(response)

\* prompt(question, default) on one response
Prompt(response, default) ==
    IF default # "" /\ Stripped(response) = "" THEN default ELSE Stripped(response)

DefaultDescription == "A spec-driven scientific project"

ProjectTypes == <<"Data pipeline", "Analysis tool", "Algorithm implementation", "General">>

AiTools == <<"Claude Code", "Cursor", "GitHub Copilot", "Other/None">>

\* what prompt_choice prints before its loop
MenuLines(question, options) ==
    <<question>> \o [i \in 1..Len(options) |-> options[i]] \o <<"Enter number: ">>

DigitStr(n) == CASE n = 0 -> "0" [] n = 1 -> "1" [] n = 2 -> "2" [] n = 3 -> "3"
                 [] n = 4 -> "4" [] n = 5 -> "5" [] n = 6 -> "6" [] n = 7 -> "7"
                 [] n = 8 -> "8" [] n = 9 -> "9"

\* the guidance line of prompt_choice (menus here have fewer than ten options)
Guidance(options) == "Please enter a number between 1 and " \o DigitStr(Len(options))

Banner == "=== Spec-Driven Project Scaffolder ==="
AskNameFirst == "Project name (e.g., seismic-analysis): "
AskNameAgain == "Project name: "
NameRequired == "Project name is required."
AskDescription == "One-line description [A spec-driven scientific project]: "
AskType == "Project type:"
AskTool == "Primary AI coding assistant:"
EnterNumber == "Enter number: "
Cancelled == "Cancelled."
Created == "Project created"

\* The lines the user types at the name and description prompts.
NameResponses ==
    { <<>>, <<" ">>, <<"seismic-analysis">>, <<" ", "seismic-analysis", "\t">> }

DescriptionResponses ==
    { <<>>, <<" ", " ">>, <<"Detect", " ", "quakes">>, <<" ", "Detect", " ", "quakes", " ">> }

\* The lines the user types at a menu.
MenuResponses ==
    { <<>>, <<"a", "b", "c">>, <<"0">>, <<"1">>, <<"2">>, <<" ", "2", " ">>,
      <<"3">>, <<"+", "3">>, <<"4">>, <<"0", "4">>, <<"5">>, <<"-", "1">>,
      <<"1", "_", "0">>, <<"2", ".", "0">>, <<"_", "2">> }

-----------------------------------------------------------------------------
(* Template catalog: the title line, the substituted description and the   *)
(* lines starting with "## " of each template, in order.                   *)

Content(title, summary, sections) ==
    [title |-> title, summary |-> summary, sections |-> sections]

EmptyFile == Content("", "", <<>>)

SPEC_FORMAT ==
    Content("# Spec Format Guide", "",
            <<"## Status Labels", "## Spec Types", "## Markdown Conventions",
              "## Change Records", "## Change Record">>)

overview_template(n, d) ==
    Content("# " \o n, d,
            <<"## Problem Statement", "## Goals", "## Non-Goals", "## Key Components",
              "## Change Record">>)

FUNCTIONAL_REQUIREMENTS ==
    Content("# Functional Requirements", "",
            <<"## Overview", "## Core Capabilities", "## Input/Output",
              "## Error Handling", "## Open Questions", "## Change Record">>)

ADR_TEMPLATE ==
    Content("# ADR-000: Decision Record Template", "",
            <<"## Context", "## Decision", "## Alternatives Considered",
              "## Consequences", "## Change Record">>)

DataFlowNoChangeRecord ==
    Content("# Data Flow Architecture", "",
            <<"## Overview", "## Pipeline Stages", "## Data Formats", "## Error Handling">>)

DATA_FLOW_TEMPLATE ==
    Content("# Data Flow Architecture", "",
            <<"## Overview", "## Pipeline Stages", "## Data Formats",
              "## Error Handling", "## Change Record">>)

ALGORITHM_SPEC_TEMPLATE ==
    Content("# Algorithm: [Name]", "",
            <<"## Overview", "## References", "## Mathematical Definition", "## Inputs",
              "## Outputs", "## Algorithm Steps", "## Edge Cases",
              "## Validation Approach", "## Change Record">>)

VALIDATION_SPEC_TEMPLATE ==
    Content("# Validation Plan", "",
            <<"## Overview", "## Test Cases", "## Validation Data",
              "## Acceptance Criteria", "## Change Record">>)

readme_template(n, d) ==
    Content("# " \o n, d,
            <<"## Overview", "## Project Structure", "## Getting Started",
              "## Development Approach">>)

contributing_template(n) ==
    Content("# Contributing to " \o n, "",
            <<"## Development Approach", "## Commit Messages", "## Code Style",
              "## Pull Request Process", "## Questions?">>)

claude_md_template(n) ==
    Content("# Project: " \o n, "",
            <<"## Overview", "## Key Principles", "## Project Structure",
              "## Working With Me", "## Spec Format">>)

cursorrules_template(n) ==
    Content("# Project: " \o n, "",
            <<"## Key Rules", "## Project Structure", "## Spec Format">>)

copilot_instructions_template(n) ==
    Content("# Project: " \o n, "", <<"## Guidelines", "## Structure">>)

-----------------------------------------------------------------------------
(* File system                                                             *)

Parent(p) == SubSeq(p, 1, Len(p) - 1)

\* the working directory always exists
IsDir(p) == p = <<>> \/ p \in fsDirs

IsFile(p) == p \in DOMAIN fsFiles

\* Path.exists()
Exists(p) == IsDir(p) \/ IsFile(p)

\* os.mkdir can create p: p is new and its parent is a directory
CanMkdir(p) == ~Exists(p) /\ IsDir(Parent(p))

\* Path.mkdir(parents=True) creates the missing ancestors first, the
\* outermost first: the shortest prefix of d that does not exist yet.
FirstMissing(d) ==
    LET k == CHOOSE k \in 1..Len(d) :
                 /\ ~Exists(SubSeq(d, 1, k))
                 /\ \A j \in 1..(k - 1) : Exists(SubSeq(d, 1, j))
    IN  SubSeq(d, 1, k)

\* open(p, "w") succeeds: the parent is a directory and p is no directory
CanOpenForWrite(p) == IsDir(Parent(p)) /\ ~IsDir(p)

WithFile(files, p, c) == [q \in DOMAIN files \cup {p} |-> IF q = p THEN c ELSE files[q]]

-----------------------------------------------------------------------------
(* create_project: the directory plan and the statements of the build      *)

Root(n) == <<n>>

BaseDirsNoImplementation(root) ==
    << root \o <<"specs", "01-requirements">>,
       root \o <<"specs", "02-architecture">>,
       root \o <<"specs", "99-decisions">>,
       root \o <<"src">>,
       root \o <<"tests">> >>

BaseDirs(root) ==
    << root \o <<"specs", "01-requirements">>,
       root \o <<"specs", "02-architecture">>,
       root \o <<"specs", "03-implementation">>,
       root \o <<"specs", "99-decisions">>,
       root \o <<"src">>,
       root \o <<"tests">> >>

Dirs(root, pt) ==
    BaseDirs(root) \o
    (IF pt = "Algorithm implementation"
     THEN << root \o <<"specs", "04-algorithms">>, root \o <<"specs", "05-validation">> >>
     ELSE <<>>)

Op(kind, path, content) == [kind |-> kind, path |-> path, content |-> content]

MkdirOps(root, pt) ==
    LET ds == Dirs(root, pt)
    IN  [i \in 1..Len(ds) |-> Op("mkdir_parents", ds[i], EmptyFile)]

CoreSpecOps(root, n, d) ==
    << Op("write_text", root \o <<"specs", "spec-format.md">>, SPEC_FORMAT),
       Op("write_text", root \o <<"specs", "00-overview.md">>, overview_template(n, d)),
       Op("write_text", root \o <<"specs", "01-requirements", "functional.md">>,
          FUNCTIONAL_REQUIREMENTS),
       Op("write_text", root \o <<"specs", "99-decisions", "adr-000-template.md">>,
          ADR_TEMPLATE) >>

\* variant: data-flow.md in the else branch of the algorithm test
TypeSpecificOpsElse(root, pt) ==
    IF pt = "Algorithm implementation"
    THEN << Op("write_text", root \o <<"specs", "04-algorithms", "algorithm-template.md">>,
               ALGORITHM_SPEC_TEMPLATE),
            Op("write_text", root \o <<"specs", "05-validation", "validation-plan.md">>,
               VALIDATION_SPEC_TEMPLATE) >>
    ELSE << Op("write_text", root \o <<"specs", "02-architecture", "data-flow.md">>,
               DATA_FLOW_TEMPLATE) >>

TypeSpecificOps(root, pt) ==
    (IF pt = "Data pipeline"
     THEN << Op("write_text", root \o <<"specs", "02-architecture", "data-flow.md">>,
                DATA_FLOW_TEMPLATE) >>
     ELSE <<>>)
    \o
    (IF pt = "Algorithm implementation"
     THEN << Op("write_text", root \o <<"specs", "04-algorithms", "algorithm-template.md">>,
                ALGORITHM_SPEC_TEMPLATE),
             Op("write_text", root \o <<"specs", "05-validation", "validation-plan.md">>,
                VALIDATION_SPEC_TEMPLATE) >>
     ELSE <<>>)

RootFileOps(root, n, d) ==
    << Op("write_text", root \o <<"README.md">>, readme_template(n, d)),
       Op("write_text", root \o <<"CONTRIBUTING.md">>, contributing_template(n)) >>

AiToolOps(root, n, at) ==
    IF at = "Claude Code"
    THEN << Op("mkdir", root \o <<".claude">>, EmptyFile),
            Op("write_text", root \o <<".claude", "CLAUDE.md">>, claude_md_template(n)) >>
    ELSE IF at = "Cursor"
    THEN << Op("write_text", root \o <<".cursorrules">>, cursorrules_template(n)) >>
    ELSE IF at = "GitHub Copilot"
    THEN << Op("mkdir", root \o <<".github">>, EmptyFile),
            Op("write_text", root \o <<".github", "copilot-instructions.md">>,
               copilot_instructions_template(n)) >>
    ELSE <<>>

GitkeepOps(root) ==
    << Op("touch", root \o <<"src", ".gitkeep">>, EmptyFile),
       Op("touch", root \o <<"tests", ".gitkeep">>, EmptyFile) >>

\* variant: the core spec files written before the directories are made
PlanWritesFirst(n, d, pt, at) ==
    LET root == Root(n)
    IN  CoreSpecOps(root, n, d) \o MkdirOps(root, pt) \o TypeSpecificOps(root, pt)
        \o RootFileOps(root, n, d) \o AiToolOps(root, n, at) \o GitkeepOps(root)

\* the statements of create_project after the existence check, in program order
Plan(n, d, pt, at) ==
    LET root == Root(n)
    IN  MkdirOps(root, pt) \o CoreSpecOps(root, n, d) \o TypeSpecificOps(root, pt)
        \o RootFileOps(root, n, d) \o AiToolOps(root, n, at) \o GitkeepOps(root)

CurrentPlan == Plan(name, description, project_type, ai_tool)

CurrentOp == CurrentPlan[step]

-----------------------------------------------------------------------------
(* The process                                                             *)

Traceback == "Traceback (most recent call last):"

ErrorExists(n) == "Error: Directory '" \o n \o "' already exists."

NoFiles == [q \in {} |-> EmptyFile]

\* a file the user keeps under the project's name before the first run
StrayFile == [q \in {Root("seismic-analysis")} |-> EmptyFile]

\* a fresh process, blocked on the first input() of gather_inputs
ProcessStart ==
    /\ pc = "ask_name"
    /\ stdout = <<Banner, AskNameFirst>>
    /\ exitStatus = NoExit
    /\ name = Unset
    /\ description = Unset
    /\ project_type = Unset
    /\ ai_tool = Unset
    /\ retries = 0
    /\ step = 0
    /\ createdByRun = {}
    /\ writtenByRun = {}
    /\ lastResponse = <<>>

Init ==
    /\ ProcessStart
    /\ fsDirs = {}
    /\ fsFiles \in {NoFiles, StrayFile}
    /\ pastRuns = {}

fsVars == <<fsDirs, fsFiles, createdByRun, writtenByRun>>

\* variant: the name accepted as typed
NameMissingNever(n) == FALSE

\* gather_inputs: the condition of "while not name"
NameMissing(n) == n = ""

\* gather_inputs: one response to the project name prompt
AnswerName ==
    /\ pc = "ask_name"
    /\ \E r \in NameResponses :
         LET n == Prompt(r, "")
         IN  /\ lastResponse' = r
             /\ name' = n
             /\ IF NameMissing(n)
                THEN /\ retries < MaxRetries
                     /\ retries' = retries + 1
                     /\ stdout' = stdout \o <<NameRequired, AskNameAgain>>
                     /\ pc' = "ask_name"
                ELSE /\ retries' = retries
                     /\ stdout' = Append(stdout, AskDescription)
                     /\ pc' = "ask_desc"
    /\ UNCHANGED <<exitStatus, description, project_type, ai_tool, step, pastRuns>>
    /\ UNCHANGED fsVars

\* gather_inputs: the response to the description prompt, then the project type menu
AnswerDescription ==
    /\ pc = "ask_desc"
    /\ \E r \in DescriptionResponses :
         /\ lastResponse' = r
         /\ description' = Prompt(r, DefaultDescription)
    /\ stdout' = stdout \o MenuLines(AskType, ProjectTypes)
    /\ pc' = "ask_type"
    /\ UNCHANGED <<exitStatus, name, project_type, ai_tool, retries, step, pastRuns>>
    /\ UNCHANGED fsVars

\* prompt_choice("Project type:", ...): one response
ChooseProjectType ==
    /\ pc = "ask_type"
    /\ \E r \in MenuResponses :
         LET c == PromptChoice(ProjectTypes, r)
         IN  /\ lastResponse' = r
             /\ IF c = NoChoice
                THEN /\ retries < MaxRetries
                     /\ retries' = retries + 1
                     /\ stdout' = stdout \o <<Guidance(ProjectTypes), EnterNumber>>
                     /\ pc' = "ask_type"
                     /\ UNCHANGED project_type
                ELSE /\ project_type' = c
                     /\ stdout' = stdout \o MenuLines(AskTool, AiTools)
                     /\ pc' = "ask_tool"
                     /\ UNCHANGED retries
    /\ UNCHANGED <<exitStatus, name, description, ai_tool, step, pastRuns>>
    /\ UNCHANGED fsVars

\* prompt_choice("Primary AI coding assistant:", ...): one response; on a
\* choice gather_inputs returns and main calls create_project
ChooseAiTool ==
    /\ pc = "ask_tool"
    /\ \E r \in MenuResponses :
         LET c == PromptChoice(AiTools, r)
         IN  /\ lastResponse' = r
             /\ IF c = NoChoice
                THEN /\ retries < MaxRetries
                     /\ retries' = retries + 1
                     /\ stdout' = stdout \o <<Guidance(AiTools), EnterNumber>>
                     /\ pc' = "ask_tool"
                     /\ UNCHANGED ai_tool
                ELSE /\ ai_tool' = c
                     /\ pc' = "check"
                     /\ UNCHANGED <<retries, stdout>>
    /\ UNCHANGED <<exitStatus, name, description, project_type, step, pastRuns>>
    /\ UNCHANGED fsVars

inputVars == <<name, description, project_type, ai_tool, retries, lastResponse>>

\* an exception no handler of main catches: traceback, exit status 1
Fault ==
    /\ pc' = "exited"
    /\ exitStatus' = 1
    /\ stdout' = Append(stdout, Traceback)
    /\ UNCHANGED <<step, fsDirs, fsFiles, createdByRun, writtenByRun>>

\* the statement at step is done: on to the next, or return root to main
Advance ==
    /\ step' = step + 1
    /\ pc' = IF step = Len(CurrentPlan) THEN "report" ELSE "build"
    /\ UNCHANGED <<exitStatus, stdout>>

\* variants of the guard: no check at all, and is_dir() in place of exists()
RootExistsNever(root) == FALSE
RootExistsDirOnly(root) == IsDir(root)

\* the guard of create_project: root.exists()
RootExists(root) == Exists(root)

\* create_project: if root.exists(): print the error and raise SystemExit(1)
CheckRoot ==
    /\ pc = "check"
    /\ IF RootExists(Root(name))
       THEN /\ stdout' = Append(stdout, ErrorExists(name))
            /\ exitStatus' = 1
            /\ pc' = "exited"
            /\ UNCHANGED step
       ELSE /\ step' = 1
            /\ pc' = "build"
            /\ UNCHANGED <<stdout, exitStatus>>
    /\ UNCHANGED <<fsDirs, fsFiles, createdByRun, writtenByRun, pastRuns>>
    /\ UNCHANGED inputVars

\* d.mkdir(parents=True, exist_ok=True): one os.mkdir per step, outermost
\* missing ancestor first; the statement is done once d itself exists
MkdirParents ==
    /\ pc = "build"
    /\ CurrentOp.kind = "mkdir_parents"
    /\ LET d == CurrentOp.path
       IN  IF IsDir(d)
           THEN Advance /\ UNCHANGED fsVars
           ELSE IF \E k \in 1..Len(d) : IsFile(SubSeq(d, 1, k))
           THEN Fault
           ELSE LET m == FirstMissing(d)
                IN  /\ fsDirs' = fsDirs \cup {m}
                    /\ createdByRun' = createdByRun \cup {m}
                    /\ UNCHANGED <<fsFiles, writtenByRun>>
                    /\ IF m = d THEN Advance
                       ELSE UNCHANGED <<pc, step, exitStatus, stdout>>
    /\ UNCHANGED pastRuns
    /\ UNCHANGED inputVars

\* (root / ".claude").mkdir(exist_ok=True) and (root / ".github").mkdir(exist_ok=True)
Mkdir ==
    /\ pc = "build"
    /\ CurrentOp.kind = "mkdir"
    /\ LET d == CurrentOp.path
       IN  IF IsDir(d)
           THEN Advance /\ UNCHANGED fsVars
           ELSE IF ~CanMkdir(d)
           THEN Fault
           ELSE /\ fsDirs' = fsDirs \cup {d}
                /\ createdByRun' = createdByRun \cup {d}
                /\ UNCHANGED <<fsFiles, writtenByRun>>
                /\ Advance
    /\ UNCHANGED pastRuns
    /\ UNCHANGED inputVars

\* path.write_text(content): create or truncate the file, write the content
WriteText ==
    /\ pc = "build"
    /\ CurrentOp.kind = "write_text"
    /\ LET f == CurrentOp.path
       IN  IF ~CanOpenForWrite(f)
           THEN Fault
           ELSE /\ fsFiles' = WithFile(fsFiles, f, CurrentOp.content)
                /\ writtenByRun' = writtenByRun \cup {f}
                /\ UNCHANGED <<fsDirs, createdByRun>>
                /\ Advance
    /\ UNCHANGED pastRuns
    /\ UNCHANGED inputVars

\* (d / ".gitkeep").touch(): create the file empty unless it exists
Touch ==
    /\ pc = "build"
    /\ CurrentOp.kind = "touch"
    /\ LET f == CurrentOp.path
       IN  IF ~CanOpenForWrite(f)
           THEN Fault
           ELSE /\ fsFiles' = IF IsFile(f) THEN fsFiles ELSE WithFile(fsFiles, f, EmptyFile)
                /\ writtenByRun' = writtenByRun \cup {f}
                /\ UNCHANGED <<fsDirs, createdByRun>>
                /\ Advance
    /\ UNCHANGED pastRuns
    /\ UNCHANGED inputVars

AiToolLine(at) ==
    IF at = "Claude Code" THEN <<"Your .claude/CLAUDE.md is ready">>
    ELSE IF at = "Cursor" THEN <<"Your .cursorrules is ready">>
    ELSE IF at = "GitHub Copilot" THEN <<"Your .github/copilot-instructions.md is ready">>
    ELSE <<>>

\* print_next_steps(root, ai_tool), then main returns: exit status 0
PrintNextSteps ==
    /\ pc = "report"
    /\ stdout' = stdout \o <<Created>> \o AiToolLine(ai_tool)
    /\ exitStatus' = 0
    /\ pc' = "exited"
    /\ UNCHANGED <<step, pastRuns>>
    /\ UNCHANGED fsVars
    /\ UNCHANGED inputVars

InterruptHandlerExitOne(out) == [stdout |-> Append(out, Cancelled), status |-> 1]

\* main: except KeyboardInterrupt: print("Cancelled."); raise SystemExit(0)
InterruptHandler(out) == [stdout |-> Append(out, Cancelled), status |-> 0]

\* KeyboardInterrupt raised inside the try block of main: the user may interrupt
\* the process wherever it is, at a prompt or between two steps of the build.
Interrupt ==
    /\ pc # "exited"
    /\ stdout' = InterruptHandler(stdout).stdout
    /\ exitStatus' = InterruptHandler(stdout).status
    /\ pc' = "exited"
    /\ UNCHANGED <<step, pastRuns>>
    /\ UNCHANGED fsVars
    /\ UNCHANGED inputVars

\* create_project has returned root to main
Returned == step > 0 /\ step > Len(CurrentPlan)

Last(q) == q[Len(q)]

\* what the exited process leaves for later runs to meet
Outcome ==
    IF Returned THEN {[name |-> name, outcome |-> "completed"]}
    ELSE IF step > 0 /\ createdByRun # {} /\ Last(stdout) = Cancelled
    THEN {[name |-> name, outcome |-> "interrupted"]}
    ELSE {}

\* the user runs the scaffolder again: a new process over the same file system
RunAgain ==
    /\ pc = "exited"
    /\ pc' = "ask_name"
    /\ stdout' = <<Banner, AskNameFirst>>
    /\ exitStatus' = NoExit
    /\ name' = Unset
    /\ description' = Unset
    /\ project_type' = Unset
    /\ ai_tool' = Unset
    /\ retries' = 0
    /\ step' = 0
    /\ createdByRun' = {}
    /\ writtenByRun' = {}
    /\ lastResponse' = <<>>
    /\ pastRuns' = pastRuns \cup Outcome
    /\ UNCHANGED <<fsDirs, fsFiles>>

Next ==
    \/ AnswerName
    \/ AnswerDescription
    \/ ChooseProjectType
    \/ ChooseAiTool
    \/ CheckRoot
    \/ MkdirParents
    \/ Mkdir
    \/ WriteText
    \/ Touch
    \/ PrintNextSteps
    \/ Interrupt
    \/ RunAgain

Spec == Init /\ [][Next]_vars

-----------------------------------------------------------------------------
(* Properties                                                              *)

Range(q) == {q[i] : i \in 1..Len(q)}

Prompting == {"ask_name", "ask_desc", "ask_type", "ask_tool"}

\* every run of the response is a whitespace character
AllWhitespace(r) == \A i \in 1..Len(r) : r[i] \in Whitespace

\* paths of the files below the project root, relative to it
FilesBelowRoot == {Tail(f) : f \in {g \in DOMAIN fsFiles : Len(g) > 1 /\ g[1] = name}}

\* paths of the directories below the project root, relative to it
DirsBelowRoot == {Tail(d) : d \in {g \in fsDirs : Len(g) > 1 /\ g[1] = name}}

BaseFileSet ==
    { <<"specs", "spec-format.md">>, <<"specs", "00-overview.md">>,
      <<"specs", "01-requirements", "functional.md">>,
      <<"specs", "99-decisions", "adr-000-template.md">>,
      <<"README.md">>, <<"CONTRIBUTING.md">>,
      <<"src", ".gitkeep">>, <<"tests", ".gitkeep">> }

TypeFileSet(pt) ==
    CASE pt = "Data pipeline" -> { <<"specs", "02-architecture", "data-flow.md">> }
      [] pt = "Algorithm implementation" ->
            { <<"specs", "04-algorithms", "algorithm-template.md">>,
              <<"specs", "05-validation", "validation-plan.md">> }
      [] OTHER -> {}

ToolFileSet(at) ==
    CASE at = "Claude Code" -> { <<".claude", "CLAUDE.md">> }
      [] at = "Cursor" -> { <<".cursorrules">> }
      [] at = "GitHub Copilot" -> { <<".github", "copilot-instructions.md">> }
      [] OTHER -> {}

\* C1: once create_project has returned (the root did not exist), the files below
\* the root are exactly the base set plus the additions of the chosen project
\* type and AI tool, for each of the 16 combinations; the run wrote exactly those.
C1_FileSetExact ==
    Returned =>
        /\ project_type \in Range(ProjectTypes)
        /\ ai_tool \in Range(AiTools)
        /\ FilesBelowRoot = BaseFileSet \cup TypeFileSet(project_type) \cup ToolFileSet(ai_tool)
        /\ {Tail(f) : f \in writtenByRun} = FilesBelowRoot

C1_Witness ==
    /\ Returned
    /\ project_type = "Data pipeline"
    /\ ai_tool = "GitHub Copilot"
    /\ <<"specs", "02-architecture", "data-flow.md">> \in FilesBelowRoot

\* C2: when create_project finds the root existing it exits with status 1 after the
\* "already exists" message, with the file system unchanged and nothing created or
\* written by the run; and a run under a name an earlier run completed never gets
\* past the check, so it writes nothing.
C2_ExistingRootFails ==
    /\ [][ (pc = "check" /\ Exists(Root(name)) /\ pc' # "check" /\ Last(stdout') # Cancelled)
            => /\ pc' = "exited"
               /\ exitStatus' = 1
               /\ Last(stdout') = ErrorExists(name)
               /\ fsDirs' = fsDirs /\ fsFiles' = fsFiles
               /\ createdByRun' = {} /\ writtenByRun' = {} ]_vars
    /\ [] ( [name |-> name, outcome |-> "completed"] \in pastRuns
             => /\ pc \notin {"build", "report"}
                /\ createdByRun = {} /\ writtenByRun = {}
                /\ (pc = "check" => Exists(Root(name)))
                /\ (pc = "exited" /\ Last(stdout) # Cancelled => exitStatus = 1) )

C2_Witness ==
    /\ [name |-> name, outcome |-> "completed"] \in pastRuns
    /\ pc = "exited"
    /\ exitStatus = 1
    /\ Last(stdout) = ErrorExists(name)
    /\ writtenByRun = {}

\* C3: a process that leaves a prompt by exiting (the user interrupted it) exits
\* with status 0 after the cancellation notice, has created no directory and
\* written no file, leaves the file system as it was and has not printed the
\* completion report.
C3_InterruptWhilePrompting ==
    /\ [][ (pc \in Prompting /\ pc' = "exited")
            => /\ exitStatus' = 0
               /\ Last(stdout') = Cancelled
               /\ Created \notin Range(stdout')
               /\ fsDirs' = fsDirs /\ fsFiles' = fsFiles
               /\ createdByRun' = {} /\ writtenByRun' = {} ]_vars
    /\ [] (pc \in Prompting => createdByRun = {} /\ writtenByRun = {})

C3_Witness ==
    /\ pc = "exited"
    /\ Last(stdout) = Cancelled
    /\ exitStatus = 0
    /\ project_type # Unset
    /\ ai_tool = Unset
    /\ step = 0

\* the response is an integer literal of value in 1..n once stripped
ValidIndex(r, n) == IsIntLiteral(Strip(r)) /\ IntValue(Strip(r)) \in 1..n

\* C4: at either menu, a response that is not an integer in 1..n selects nothing and
\* makes the guidance and the prompt appear again; a response that is an integer k
\* in 1..n makes the menu return its k-th option; "abc" and "0" re-prompt, "2"
\* returns the second option; a menu is left only by a valid choice or by a
\* cancellation, never by an error exit.
C4_MenuSelection ==
    [][ /\ (pc = "ask_type" /\ pc' # "exited") =>
              IF ValidIndex(lastResponse', Len(ProjectTypes))
              THEN /\ pc' = "ask_tool"
                   /\ project_type' = ProjectTypes[IntValue(Strip(lastResponse'))]
              ELSE /\ pc' = "ask_type"
                   /\ project_type' = Unset
                   /\ stdout' = stdout \o <<"Please enter a number between 1 and 4", EnterNumber>>
        /\ (pc = "ask_tool" /\ pc' # "exited") =>
              IF ValidIndex(lastResponse', Len(AiTools))
              THEN /\ pc' = "check"
                   /\ ai_tool' = AiTools[IntValue(Strip(lastResponse'))]
              ELSE /\ pc' = "ask_tool"
                   /\ ai_tool' = Unset
                   /\ stdout' = stdout \o <<"Please enter a number between 1 and 4", EnterNumber>>
        /\ (pc \in {"ask_type", "ask_tool"} /\ pc' \notin {"exited", pc}) =>
              /\ lastResponse' \notin {<<"a", "b", "c">>, <<"0">>, <<"5">>, <<>>}
              /\ (lastResponse' = <<"2">> /\ pc = "ask_type" => project_type' = "Analysis tool")
              /\ (lastResponse' = <<"2">> /\ pc = "ask_tool" => ai_tool' = "Cursor")
        /\ (pc \in {"ask_type", "ask_tool"} /\ pc' = "exited") =>
              (exitStatus' = 0 /\ Traceback \notin Range(stdout')) ]_vars

C4_Witness ==
    /\ pc = "ask_tool"
    /\ retries = 2
    /\ lastResponse = <<"2">>
    /\ project_type = "Analysis tool"
    /\ Cardinality({i \in 1..Len(stdout) : stdout[i] = Guidance(ProjectTypes)}) = 2

\* C5: every response to the name prompt that is empty once stripped is followed by
\* the "required" message and the name prompt again; the description prompt is
\* reached only by a response that is not empty once stripped, which becomes the
\* name; so the name is non-empty from the description prompt on, in particular
\* whenever create_project runs.
C5_NameNonEmpty ==
    /\ [][ (pc = "ask_name" /\ pc' # "exited") =>
              IF AllWhitespace(lastResponse')
              THEN /\ pc' = "ask_name"
                   /\ stdout' = stdout \o <<NameRequired, AskNameAgain>>
              ELSE /\ pc' = "ask_desc"
                   /\ name' = Stripped(lastResponse')
                   /\ name' # "" ]_vars
    /\ [] (pc \in {"ask_desc", "ask_type", "ask_tool", "check", "build", "report"} => name # "")
    /\ [] (step > 0 => name # "")

C5_Witness ==
    /\ pc = "ask_desc"
    /\ retries = 2
    /\ name = "seismic-analysis"
    /\ Cardinality({i \in 1..Len(stdout) : stdout[i] = NameRequired}) = 2

\* C6: a response to the description prompt that is empty (once stripped) makes the
\* description "A spec-driven scientific project"; any other response, stripped,
\* is the description; either way the next prompt is the project type menu, the
\* description prompt is not issued again and the description stays as set.
C6_DescriptionDefault ==
    /\ [][ (pc = "ask_desc" /\ pc' # "exited") =>
              /\ pc' = "ask_type"
              /\ Cardinality({i \in 1..Len(stdout') : stdout'[i] = AskDescription}) = 1
              /\ IF AllWhitespace(lastResponse')
                 THEN description' = "A spec-driven scientific project"
                 ELSE description' = Stripped(lastResponse') /\ description' # "" ]_vars
    /\ [][ (pc \in {"ask_type", "ask_tool", "check", "build", "report"})
            => (description' = description) ]_vars

C6_Witness ==
    /\ pc = "ask_type"
    /\ lastResponse = <<>>
    /\ description = "A spec-driven scientific project"

\* the end-to-end scenario of C7
SeismicScenario ==
    /\ Returned
    /\ name = "seismic-analysis"
    /\ description = "Detect quakes"
    /\ project_type = "Algorithm implementation"
    /\ ai_tool = "Claude Code"

\* C7 as stated: the scenario leaves exactly 7 directories below the root, not
\* counting .claude, and exactly 10 files.
C7_AsStated ==
    SeismicScenario =>
        /\ Cardinality(DirsBelowRoot \ {<<".claude">>}) = 7
        /\ Cardinality(FilesBelowRoot) = 10

\* C7 (amended): the scenario leaves exactly 9 directories below the root, not
\* counting .claude (the 8 of the directory plan, 6 base + 2 algorithm-specific,
\* and their parent specs), and exactly 11 files: the 9 named files and the two
\* .gitkeep markers.
C7_SeismicScenario ==
    SeismicScenario =>
        /\ DirsBelowRoot \ {<<".claude">>} =
               { <<"specs">>, <<"specs", "01-requirements">>, <<"specs", "02-architecture">>,
                 <<"specs", "03-implementation">>, <<"specs", "99-decisions">>,
                 <<"specs", "04-algorithms">>, <<"specs", "05-validation">>,
                 <<"src">>, <<"tests">> }
        /\ Cardinality(DirsBelowRoot \ {<<".claude">>}) = 9
        /\ FilesBelowRoot =
               { <<"specs", "spec-format.md">>, <<"specs", "00-overview.md">>,
                 <<"specs", "01-requirements", "functional.md">>,
                 <<"specs", "99-decisions", "adr-000-template.md">>,
                 <<"specs", "04-algorithms", "algorithm-template.md">>,
                 <<"specs", "05-validation", "validation-plan.md">>,
                 <<"README.md">>, <<"CONTRIBUTING.md">>, <<".claude", "CLAUDE.md">>,
                 <<"src", ".gitkeep">>, <<"tests", ".gitkeep">> }
        /\ Cardinality(FilesBelowRoot) = 11

C7_Witness == SeismicScenario /\ <<".claude">> \in DirsBelowRoot

HasChangeRecord(c) == "## Change Record" \in Range(c.sections)

\* C8 as stated: every file below the root other than the .gitkeep markers
\* contains a "## Change Record" line.
C8_AsStated ==
    \A f \in DOMAIN fsFiles :
        (Len(f) > 1 /\ Last(f) # ".gitkeep") => HasChangeRecord(fsFiles[f])

\* C8 (amended): every file written below specs/ of the root, for every project
\* type, contains a "## Change Record" line.
C8_SpecsHaveChangeRecord ==
    \A f \in DOMAIN fsFiles :
        (Len(f) > 2 /\ f[2] = "specs") => HasChangeRecord(fsFiles[f])

C8_Witness ==
    /\ Returned
    /\ project_type = "Data pipeline"
    /\ Root(name) \o <<"specs", "02-architecture", "data-flow.md">> \in writtenByRun
    /\ Root(name) \o <<"README.md">> \in writtenByRun

\* C9: a process that exits from the build by an interrupt exits with status 0 after
\* the cancellation notice and leaves the file system exactly as the build had
\* made it; a run under a name for which an earlier interrupted build had created
\* a directory finds the root existing and ends with status 1 and the "already
\* exists" message, unless it is cancelled itself.
C9_InterruptDuringBuild ==
    /\ [][ (pc = "build" /\ pc' = "exited" /\ Last(stdout') = Cancelled)
            => /\ exitStatus' = 0
               /\ stdout' = Append(stdout, Cancelled)
               /\ Created \notin Range(stdout')
               /\ fsDirs' = fsDirs /\ fsFiles' = fsFiles
               /\ createdByRun' = createdByRun /\ writtenByRun' = writtenByRun ]_vars
    /\ [] ( [name |-> name, outcome |-> "interrupted"] \in pastRuns
             => /\ Root(name) \in fsDirs
                /\ pc \notin {"build", "report"}
                /\ (pc = "exited" /\ Last(stdout) # Cancelled
                      => exitStatus = 1 /\ Last(stdout) = ErrorExists(name)) )

C9_Witness ==
    /\ [name |-> name, outcome |-> "interrupted"] \in pastRuns
    /\ pc = "exited"
    /\ exitStatus = 1
    /\ Last(stdout) = ErrorExists(name)
    /\ Root(name) \o <<"README.md">> \in DOMAIN fsFiles
    /\ Root(name) \o <<"src", ".gitkeep">> \notin DOMAIN fsFiles

\* C10: whenever the next statement of the build writes or touches a file, the
\* directory holding the file is one this process has created; a file appears or
\* changes only in a step of the build, after the existence check has passed,
\* and only in a directory this process created; no write fails.
C10_WritesAfterMkdir ==
    /\ [] ( (pc = "build" /\ CurrentOp.kind \in {"write_text", "touch"})
             => Parent(CurrentOp.path) \in createdByRun )
    /\ [] (writtenByRun # {} => step > 0)
    /\ [] (\A f \in writtenByRun : Parent(f) \in createdByRun)
    /\ [] (Traceback \notin Range(stdout))
    /\ [][ \A f \in DOMAIN fsFiles' :
              (f \notin DOMAIN fsFiles \/ fsFiles'[f] # fsFiles[f])
              => (pc = "build" /\ step > 0 /\ Parent(f) \in createdByRun) ]_vars

C10_Witness ==
    /\ Returned
    /\ ai_tool = "Cursor"
    /\ Root(name) \o <<".cursorrules">> \in writtenByRun
    /\ Root(name) \o <<"tests", ".gitkeep">> \in writtenByRun

====
